---------------------------- MODULE Spec2Model ----------------------------
(***************************************************************************)
(* Curl2vRO (src/curl2vRO.js): parseCurlCommand, generateVROCode and       *)
(* convertCurlToVRO.                                                       *)
(*                                                                         *)
(* A JavaScript string is a sequence of one-character strings.  Every      *)
(* regular expression of the parser is translated into an operator over    *)
(* such sequences that returns what String.prototype.match returns for it  *)
(* (leftmost match, greedy and lazy quantifiers, backreferences, the g     *)
(* flag).  undefined/null results are the empty sequence where the match   *)
(* can never be empty, and a record with a `found` field otherwise.        *)
(***************************************************************************)
EXTENDS Integers, Sequences, FiniteSets, TLC

(***************************************************************************)
(* Characters                                                              *)
(***************************************************************************)

\* The printable ASCII characters, code 32 (space) to 126 (~), in order.
\* (Backslash, code 92, and backtick, code 96, have no string literal and
\* are written "BACKSLASH" and "BACKTICK"; no modelled input has them.)
Ascii ==
  <<" ","!","\"","#","$","%","&","'","(",")","*","+",",","-",".","/",
    "0","1","2","3","4","5","6","7","8","9",":",";","<","=",">","?",
    "@","A","B","C","D","E","F","G","H","I","J","K","L","M","N","O",
    "P","Q","R","S","T","U","V","W","X","Y","Z","[","BACKSLASH","]","^","_",
    "BACKTICK","a","b","c","d","e","f","g","h","i","j","k","l","m","n","o",
    "p","q","r","s","t","u","v","w","x","y","z","{","|","}","~">>

\* The code unit of a character (String.prototype.charCodeAt).
Ord(c) ==
  IF c = "\n" THEN 10
  ELSE IF c = "\t" THEN 9
  ELSE 31 + (CHOOSE i \in 1..Len(Ascii) : Ascii[i] = c)

\* String.fromCharCode for a printable code.
Chr(n) == Ascii[n - 31]

\* The regular expression classes \s, ['"], [A-Za-z], \w.
Space == {" ", "\n", "\t"}
Quote == {"'", "\""}
UpperLetter == {Chr(n) : n \in 65..90}
LowerLetter == {Chr(n) : n \in 97..122}
Letter == UpperLetter \cup LowerLetter
Digit == {Chr(n) : n \in 48..57}
Word == Letter \cup Digit \cup {"_"}

\* String.prototype.toUpperCase / toLowerCase on one ASCII character.
UpperChar(c) == IF c \in LowerLetter THEN Chr(Ord(c) - 32) ELSE c
LowerChar(c) == IF c \in UpperLetter THEN Chr(Ord(c) + 32) ELSE c
ToUpperCase(s) == [i \in 1..Len(s) |-> UpperChar(s[i])]
ToLowerCase(s) == [i \in 1..Len(s) |-> LowerChar(s[i])]

Min(S) == CHOOSE x \in S : \A y \in S : x <= y

(***************************************************************************)
(* Regular expression building blocks                                      *)
(***************************************************************************)

\* The literal lit occurs in s at position i.
HasAt(s, i, lit) ==
  /\ i >= 1
  /\ i + Len(lit) - 1 <= Len(s)
  /\ \A k \in 1..Len(lit) : s[i + k - 1] = lit[k]

\* The same under the i flag.
HasAtIgnoreCase(s, i, lit) ==
  /\ i >= 1
  /\ i + Len(lit) - 1 <= Len(s)
  /\ \A k \in 1..Len(lit) : UpperChar(s[i + k - 1]) = UpperChar(lit[k])

\* A greedy run [C]* from position i: the first position at or after i
\* whose character is not in C (Len(s) + 1 when the run reaches the end).
RunEnd(s, i, C) ==
  Min({j \in i..(Len(s) + 1) : j = Len(s) + 1 \/ s[j] \notin C})

\* A greedy run [^C]* from position i.
RunEndNot(s, i, C) ==
  Min({j \in i..(Len(s) + 1) : j = Len(s) + 1 \/ s[j] \in C})

\* \s+ at position i: 0 when no whitespace is there, else the position
\* after the whole run.
SpacesEnd(s, i) ==
  IF i >= 1 /\ i <= Len(s) /\ s[i] \in Space THEN RunEnd(s, i, Space) ELSE 0

\* (?:A|B) for two literal flags: the length matched at p, 0 for none.
FlagLen(s, p, short, long) ==
  IF HasAt(s, p, short) THEN Len(short)
  ELSE IF HasAt(s, p, long) THEN Len(long)
  ELSE 0

\* String.prototype.includes for one character.
Includes(s, c) == \E i \in 1..Len(s) : s[i] = c

\* String.prototype.trim.
Trim(s) ==
  LET keep == {i \in 1..Len(s) : s[i] \notin Space}
  IN IF keep = {} THEN <<>>
     ELSE SubSeq(s, Min(keep), CHOOSE x \in keep : \A y \in keep : y <= x)

\* String.prototype.split(c) for a one-character separator.
RECURSIVE Split(_, _)
Split(s, c) ==
  LET at == {i \in 1..Len(s) : s[i] = c}
  IN IF at = {} THEN <<s>>
     ELSE <<SubSeq(s, 1, Min(at) - 1)>> \o Split(SubSeq(s, Min(at) + 1, Len(s)), c)

\* Array.prototype.join(c).
RECURSIVE Join(_, _)
Join(parts, c) ==
  IF parts = <<>> THEN <<>>
  ELSE IF Len(parts) = 1 THEN parts[1]
  ELSE parts[1] \o <<c>> \o Join(Tail(parts), c)

(***************************************************************************)
(* parseCurlCommand: the URL                                               *)
(***************************************************************************)

\* <flag>\s+\w+\s+ at q: the position after it, 0 when it does not match.
VerbPrefixEnd(s, q, flag) ==
  IF ~HasAt(s, q, flag) THEN 0
  ELSE LET b == SpacesEnd(s, q + Len(flag))
       IN IF b = 0 \/ b > Len(s) \/ s[b] \notin Word THEN 0
          ELSE SpacesEnd(s, RunEnd(s, b, Word))

\* <flag>\s+ at q.
FlagPrefixEnd(s, q, flag) ==
  IF ~HasAt(s, q, flag) THEN 0 ELSE SpacesEnd(s, q + Len(flag))

\* The optional group of urlRegex,
\*   (?:(?:-X\s+\w+\s+)|(?:--request\s+\w+\s+)|(?:--location\s+)|(?:-L\s+)|(?:--url\s+))?
\* at q: the position after the alternative that matches, 0 for none.  The
\* group is matched at most once.
UrlPrefixEnd(s, q) ==
  IF VerbPrefixEnd(s, q, <<"-","X">>) # 0 THEN VerbPrefixEnd(s, q, <<"-","X">>)
  ELSE IF VerbPrefixEnd(s, q, <<"-","-","r","e","q","u","e","s","t">>) # 0 THEN VerbPrefixEnd(s, q, <<"-","-","r","e","q","u","e","s","t">>)
  ELSE IF FlagPrefixEnd(s, q, <<"-","-","l","o","c","a","t","i","o","n">>) # 0 THEN FlagPrefixEnd(s, q, <<"-","-","l","o","c","a","t","i","o","n">>)
  ELSE IF FlagPrefixEnd(s, q, <<"-","L">>) # 0 THEN FlagPrefixEnd(s, q, <<"-","L">>)
  ELSE FlagPrefixEnd(s, q, <<"-","-","u","r","l">>)

\* A variant with an optional scheme, ['"]?((?:https?:\/\/)?[^'""\s]+)['"]?.
UrlBodyAtSchemeOptional(s, r) ==
  LET u == IF r <= Len(s) /\ s[r] \in Quote THEN r + 1 ELSE r
      f == RunEndNot(s, u, Quote \cup Space)
  IN IF u > Len(s) \/ f = u THEN <<>> ELSE SubSeq(s, u, f - 1)

\* ['"]?((?:https?|http):\/\/[^'""\s]+)['"]? at r: the captured group,
\* <<>> when it does not match.
UrlBodyAt(s, r) ==
  LET u == IF r <= Len(s) /\ s[r] \in Quote THEN r + 1 ELSE r
      e == IF HasAt(s, u, <<"h","t","t","p","s",":","/","/">>) THEN u + 8
           ELSE IF HasAt(s, u, <<"h","t","t","p",":","/","/">>) THEN u + 7
           ELSE 0
  IN IF e = 0 THEN <<>>
     ELSE LET f == RunEndNot(s, e, Quote \cup Space)
          IN IF f = e THEN <<>> ELSE SubSeq(s, u, f - 1)

\* urlRegex anchored at p.
UrlMatchAt(s, p) ==
  IF ~HasAt(s, p, <<"c","u","r","l">>) THEN <<>>
  ELSE LET q == SpacesEnd(s, p + 4)
       IN IF q = 0 THEN <<>>
          ELSE IF UrlPrefixEnd(s, q) # 0 /\ UrlBodyAt(s, UrlPrefixEnd(s, q)) # <<>>
               THEN UrlBodyAt(s, UrlPrefixEnd(s, q))
               ELSE UrlBodyAt(s, q)

\* curlCommand.match(urlRegex)[1], <<>> for a null match.
UrlMatch(s) ==
  LET at == {p \in 1..Len(s) : UrlMatchAt(s, p) # <<>>}
  IN IF at = {} THEN <<>> ELSE UrlMatchAt(s, Min(at))

(***************************************************************************)
(* parseCurlCommand: the method                                            *)
(***************************************************************************)

\* /(?:-X|--request)\s+([A-Z]+)/i anchored at p: the captured verb.
MethodMatchAt(s, p) ==
  LET n == IF HasAtIgnoreCase(s, p, <<"-","X">>) THEN 2
           ELSE IF HasAtIgnoreCase(s, p, <<"-","-","r","e","q","u","e","s","t">>) THEN 9
           ELSE 0
      b == IF n = 0 THEN 0 ELSE SpacesEnd(s, p + n)
  IN IF b = 0 \/ b > Len(s) \/ s[b] \notin Letter THEN <<>>
     ELSE SubSeq(s, b, RunEnd(s, b, Letter) - 1)

\* methodMatch[1], <<>> for a null match.
MethodMatch(s) ==
  LET at == {p \in 1..Len(s) : MethodMatchAt(s, p) # <<>>}
  IN IF at = {} THEN <<>> ELSE MethodMatchAt(s, Min(at))

(***************************************************************************)
(* parseCurlCommand: the headers                                           *)
(***************************************************************************)

\* /(?:-H|--header)\s+(['"])([^\1]+?)\1/ anchored at p: the positions of
\* the opening and closing quote, open = 0 when it does not match.  Inside
\* a class \1 is the character U+0001, so [^\1]+? is one or more of any
\* character, as few as possible.
QuotedHeaderAt(s, p) ==
  LET n == FlagLen(s, p, <<"-","H">>, <<"-","-","h","e","a","d","e","r">>)
      b == IF n = 0 THEN 0 ELSE SpacesEnd(s, p + n)
      close == IF b = 0 \/ b > Len(s) \/ s[b] \notin Quote THEN {}
               ELSE {k \in (b + 2)..Len(s) : s[k] = s[b]}
  IN IF close = {} THEN [open |-> 0, close |-> 0]
     ELSE [open |-> b, close |-> Min(close)]

\* /(?:-H|--header)\s+([^'\s"][^\s]*)/ anchored at p: the first and last
\* position of the captured token, first = 0 when it does not match.
UnquotedHeaderAt(s, p) ==
  LET n == FlagLen(s, p, <<"-","H">>, <<"-","-","h","e","a","d","e","r">>)
      b == IF n = 0 THEN 0 ELSE SpacesEnd(s, p + n)
  IN IF b = 0 \/ b > Len(s) \/ s[b] \in Quote
     THEN [first |-> 0, last |-> 0]
     ELSE [first |-> b, last |-> RunEndNot(s, b, Space) - 1]

\* curlCommand.match(/.../g) for the quoted form: the matched substrings,
\* left to right, not overlapping, scanning from position p.
RECURSIVE QuotedHeaderMatches(_, _)
QuotedHeaderMatches(s, p) ==
  IF p > Len(s) THEN <<>>
  ELSE LET m == QuotedHeaderAt(s, p)
       IN IF m.open = 0 THEN QuotedHeaderMatches(s, p + 1)
          ELSE <<SubSeq(s, p, m.close)>> \o QuotedHeaderMatches(s, m.close + 1)

\* The same for the unquoted form.
RECURSIVE UnquotedHeaderMatches(_, _)
UnquotedHeaderMatches(s, p) ==
  IF p > Len(s) THEN <<>>
  ELSE LET m == UnquotedHeaderAt(s, p)
       IN IF m.first = 0 THEN UnquotedHeaderMatches(s, p + 1)
          ELSE <<SubSeq(s, p, m.last)>> \o UnquotedHeaderMatches(s, m.last + 1)

\* headerMatches: the quoted matches, or, only when there is none, the
\* unquoted ones (null || ...).
HeaderMatches(s) ==
  IF QuotedHeaderMatches(s, 1) # <<>> THEN QuotedHeaderMatches(s, 1)
  ELSE UnquotedHeaderMatches(s, 1)

\* headerContent of one matched substring: group 2 of the quoted form,
\* else group 1 of the unquoted form, else ''.
HeaderContent(h) ==
  LET qs == {p \in 1..Len(h) : QuotedHeaderAt(h, p).open # 0}
      us == {p \in 1..Len(h) : UnquotedHeaderAt(h, p).first # 0}
  IN IF qs # {}
     THEN LET m == QuotedHeaderAt(h, Min(qs)) IN SubSeq(h, m.open + 1, m.close - 1)
     ELSE IF us # {}
     THEN LET m == UnquotedHeaderAt(h, Min(us)) IN SubSeq(h, m.first, m.last)
     ELSE <<>>

\* A variant that destructures [key, value] and so drops what follows a
\* second colon.
HeaderPairFirstPartOnly(content) ==
  LET parts == Split(content, ":")
  IN [key |-> Trim(parts[1]), value |-> Trim(parts[2])]

\* const [key, ...valueParts] = headerContent.split(':');
\* value = valueParts.join(':').trim(); headers[key.trim()] = value
HeaderPair(content) ==
  LET parts == Split(content, ":")
  IN [key |-> Trim(parts[1]), value |-> Trim(Join(Tail(parts), ":"))]

(***************************************************************************)
(* A JavaScript object with string keys: the entries in insertion order.   *)
(* Assigning an existing key keeps its place.  (Keys that are canonical    *)
(* array indexes would be enumerated first; the modelled inputs have       *)
(* none.)                                                                  *)
(***************************************************************************)

HasKey(obj, k) == \E i \in 1..Len(obj) : obj[i].key = k

Get(obj, k) == obj[CHOOSE i \in 1..Len(obj) : obj[i].key = k].value

Put(obj, k, v) ==
  IF HasKey(obj, k)
  THEN [i \in 1..Len(obj) |-> IF obj[i].key = k THEN [key |-> k, value |-> v] ELSE obj[i]]
  ELSE Append(obj, [key |-> k, value |-> v])

\* The forEach loop over headerMatches, from index i, starting from hs.
RECURSIVE ParseHeaders(_, _, _)
ParseHeaders(matches, i, hs) ==
  IF i > Len(matches) THEN hs
  ELSE LET content == HeaderContent(matches[i])
       IN IF content # <<>> /\ Includes(content, ":")
          THEN ParseHeaders(matches, i + 1,
                            Put(hs, HeaderPair(content).key, HeaderPair(content).value))
          ELSE ParseHeaders(matches, i + 1, hs)

(***************************************************************************)
(* parseCurlCommand: the body                                              *)
(***************************************************************************)

\* /<flag>\s+(['"])({[\s\S]*?})\1/ anchored at p: the positions of the
\* opening quote and of the closing brace, open = 0 when it does not
\* match.  The body runs from the brace after the quote to the first
\* closing brace that the same quote follows.
JsonDataAt(s, p, flag) ==
  LET b == IF HasAt(s, p, flag) THEN SpacesEnd(s, p + Len(flag)) ELSE 0
      close == IF b = 0 \/ b + 1 > Len(s) \/ s[b] \notin Quote \/ s[b + 1] # "{" THEN {}
               ELSE {k \in (b + 2)..(Len(s) - 1) : s[k] = "}" /\ s[k + 1] = s[b]}
  IN IF close = {} THEN [open |-> 0, last |-> 0]
     ELSE [open |-> b, last |-> Min(close)]

\* /<flag>\s+(['"])([\s\S]*?)\1/ anchored at p: the positions of the
\* opening quote and of the last body character (open when the body is
\* empty), open = 0 when it does not match.
AnyDataAt(s, p, flag) ==
  LET b == IF HasAt(s, p, flag) THEN SpacesEnd(s, p + Len(flag)) ELSE 0
      close == IF b = 0 \/ b > Len(s) \/ s[b] \notin Quote THEN {}
               ELSE {k \in (b + 1)..Len(s) : s[k] = s[b]}
  IN IF close = {} THEN [open |-> 0, last |-> 0]
     ELSE [open |-> b, last |-> Min(close) - 1]

\* One entry of dataRegexes applied with String.prototype.match: match[2],
\* found = FALSE for a null match.
DataAt(s, p, rx) ==
  IF rx.json THEN JsonDataAt(s, p, rx.flag) ELSE AnyDataAt(s, p, rx.flag)

DataRegexMatch(s, rx) ==
  LET at == {p \in 1..Len(s) : DataAt(s, p, rx).open # 0}
  IN IF at = {} THEN [found |-> FALSE, data |-> <<>>]
     ELSE LET m == DataAt(s, Min(at), rx)
          IN [found |-> TRUE, data |-> SubSeq(s, m.open + 1, m.last)]

\* dataRegexes, in the order of the array.
dataRegexes ==
  << [json |-> TRUE,  flag |-> <<"-","d">>],
     [json |-> TRUE,  flag |-> <<"-","-","d","a","t","a">>],
     [json |-> TRUE,  flag |-> <<"-","-","d","a","t","a","-","r","a","w">>],
     [json |-> TRUE,  flag |-> <<"-","-","d","a","t","a","-","b","i","n","a","r","y">>],
     [json |-> FALSE, flag |-> <<"-","d">>],
     [json |-> FALSE, flag |-> <<"-","-","d","a","t","a">>],
     [json |-> FALSE, flag |-> <<"-","-","d","a","t","a","-","r","a","w">>],
     [json |-> FALSE, flag |-> <<"-","-","d","a","t","a","-","b","i","n","a","r","y">>],
     [json |-> FALSE, flag |-> <<"-","-","d","a","t","a","-","u","r","l","e","n","c","o","d","e">>] >>

\* The loop over dataRegexes: the first regular expression that matches
\* decides dataMatch.
DataMatch(s) ==
  LET hit == {i \in 1..Len(dataRegexes) : DataRegexMatch(s, dataRegexes[i]).found}
  IN IF hit = {} THEN [found |-> FALSE, data |-> <<>>]
     ELSE DataRegexMatch(s, dataRegexes[Min(hit)])

(***************************************************************************)
(* parseCurlCommand: -u/--user and --form/-F                               *)
(***************************************************************************)

\* /(?:<short>|<long>)\s+(['"]?)([^'"]+?)\1/ anchored at p: the first and
\* last position of group 2 and the last position of the whole match,
\* first = 0 when it does not match.
\*  - After the whitespace comes a quote: group 1 is that quote and group 2
\*    the characters up to the same quote, when there is at least one and
\*    no other quote comes before it.
\*  - After the whitespace comes another character: group 1 is empty, and
\*    the lazy group 2 stops after its first character, because the empty
\*    \1 matches there.
\*  - Otherwise \s+ gives back its last whitespace character, when it has
\*    two or more, and group 2 is that character.
QuotedTokenAt(s, p, short, long) ==
  LET n == FlagLen(s, p, short, long)
      a == p + n
      b == IF n = 0 THEN 0 ELSE SpacesEnd(s, a)
      k == IF b = 0 \/ b > Len(s) THEN 0 ELSE RunEndNot(s, b + 1, Quote)
      none == [first |-> 0, last |-> 0, end |-> 0]
  IN IF b = 0 THEN none
     ELSE IF b <= Len(s) /\ s[b] \in Quote /\ k <= Len(s) /\ k >= b + 2 /\ s[k] = s[b]
     THEN [first |-> b + 1, last |-> k - 1, end |-> k]
     ELSE IF b <= Len(s) /\ s[b] \notin Quote
     THEN [first |-> b, last |-> b, end |-> b]
     ELSE IF b - a >= 2
     THEN [first |-> b - 1, last |-> b - 1, end |-> b - 1]
     ELSE none

\* authMatch[2] of curlCommand.match(/(?:-u|--user)\s+(['"]?)([^'"]+?)\1/),
\* <<>> for a null match.
AuthAt(s, p) == QuotedTokenAt(s, p, <<"-","u">>, <<"-","-","u","s","e","r">>)

AuthMatch(s) ==
  LET at == {p \in 1..Len(s) : AuthAt(s, p).first # 0}
  IN IF at = {} THEN <<>>
     ELSE LET m == AuthAt(s, Min(at)) IN SubSeq(s, m.first, m.last)

\* Buffer.from(str).toString('base64') for a string of ASCII characters.
Base64Alphabet ==
  <<"A","B","C","D","E","F","G","H","I","J","K","L","M","N","O","P",
    "Q","R","S","T","U","V","W","X","Y","Z","a","b","c","d","e","f",
    "g","h","i","j","k","l","m","n","o","p","q","r","s","t","u","v",
    "w","x","y","z","0","1","2","3","4","5","6","7","8","9","+","/">>

Sextet(n, k) == Base64Alphabet[((n \div (64 ^ k)) % 64) + 1]

RECURSIVE Base64(_)
Base64(s) ==
  IF Len(s) = 0 THEN <<>>
  ELSE IF Len(s) = 1
  THEN LET n == Ord(s[1]) * 65536
       IN <<Sextet(n, 3), Sextet(n, 2), "=", "=">>
  ELSE IF Len(s) = 2
  THEN LET n == Ord(s[1]) * 65536 + Ord(s[2]) * 256
       IN <<Sextet(n, 3), Sextet(n, 2), Sextet(n, 1), "=">>
  ELSE LET n == Ord(s[1]) * 65536 + Ord(s[2]) * 256 + Ord(s[3])
       IN <<Sextet(n, 3), Sextet(n, 2), Sextet(n, 1), Sextet(n, 0)>>
          \o Base64(SubSeq(s, 4, Len(s)))

\* const [username, password] = authMatch[2].split(':');
\* 'Basic ' + Buffer.from(username + ':' + password).toString('base64')
BasicAuth(cred) ==
  LET parts == Split(cred, ":")
  IN <<"B","a","s","i","c"," ">> \o Base64(parts[1] \o <<":">> \o parts[2])

\* curlCommand.match(/(?:--form|-F)\s+(['"]?)([^'"]+?)\1/g): the matched
\* substrings, scanning from position p.
FormAt(s, p) == QuotedTokenAt(s, p, <<"-","-","f","o","r","m">>, <<"-","F">>)

RECURSIVE FormMatches(_, _)
FormMatches(s, p) ==
  IF p > Len(s) THEN <<>>
  ELSE LET m == FormAt(s, p)
       IN IF m.first = 0 THEN FormMatches(s, p + 1)
          ELSE <<SubSeq(s, p, m.end)>> \o FormMatches(s, m.end + 1)

\* match[2] of formPart.match(...), <<>> for a null match.
FormPartContent(part) ==
  LET at == {p \in 1..Len(part) : FormAt(part, p).first # 0}
  IN IF at = {} THEN <<>>
     ELSE LET m == FormAt(part, Min(at)) IN SubSeq(part, m.first, m.last)

\* The forEach loop over formMatches, from index i, starting from fd:
\* const [key, value] = match[2].split('='); formData[key.trim()] = value.trim()
RECURSIVE ParseForm(_, _, _)
ParseForm(parts, i, fd) ==
  IF i > Len(parts) THEN fd
  ELSE LET content == FormPartContent(parts[i])
           kv == Split(content, "=")
       IN IF content # <<>> /\ Includes(content, "=")
          THEN ParseForm(parts, i + 1, Put(fd, Trim(kv[1]), Trim(kv[2])))
          ELSE ParseForm(parts, i + 1, fd)

\* JSON.stringify of a string: quoted, with " and the control characters
\* escaped (backslash is no character of the model).
RECURSIVE JsonEscape(_)
JsonEscape(s) ==
  IF s = <<>> THEN <<>>
  ELSE (IF s[1] = "\"" THEN <<"BACKSLASH", "\"">>
        ELSE IF s[1] = "\n" THEN <<"BACKSLASH", "n">>
        ELSE IF s[1] = "\t" THEN <<"BACKSLASH", "t">>
        ELSE <<s[1]>>) \o JsonEscape(Tail(s))

JsonString(s) == <<"\"">> \o JsonEscape(s) \o <<"\"">>

\* JSON.stringify of an object whose values are strings.
RECURSIVE JsonMembers(_, _)
JsonMembers(obj, i) ==
  IF i > Len(obj) THEN <<>>
  ELSE (IF i > 1 THEN <<",">> ELSE <<>>)
       \o JsonString(obj[i].key) \o <<":">> \o JsonString(obj[i].value)
       \o JsonMembers(obj, i + 1)

JsonStringify(obj) == <<"{">> \o JsonMembers(obj, 1) \o <<"}">>

(***************************************************************************)
(* parseCurlCommand                                                        *)
(***************************************************************************)

\* A variant that lets a body decide before the explicit method.
MethodIgnoringExplicit(methodMatch, hasBody) ==
  IF hasBody THEN <<"P","O","S","T">>
  ELSE IF methodMatch # <<>> THEN ToUpperCase(methodMatch)
  ELSE <<"G","E","T">>

\* let method = methodMatch ? methodMatch[1].toUpperCase() : 'GET', then
\* 'POST' when there is a body (dataMatch, or form data) and no methodMatch.
ResolveMethod(methodMatch, hasBody) ==
  IF methodMatch # <<>> THEN ToUpperCase(methodMatch)
  ELSE IF hasBody THEN <<"P","O","S","T">>
  ELSE <<"G","E","T">>

\* if (authMatch && authMatch[2].includes(':')) headers['Authorization'] = ...
WithAuth(headers, authMatch) ==
  IF authMatch # <<>> /\ Includes(authMatch, ":")
  THEN Put(headers, <<"A","u","t","h","o","r","i","z","a","t","i","o","n">>, BasicAuth(authMatch))
  ELSE headers

\* if (!headers['Content-Type']) headers['Content-Type'] = '...': an
\* absent key and an empty value are both falsy.
WithFormContentType(headers) ==
  IF HasKey(headers, <<"C","o","n","t","e","n","t","-","T","y","p","e">>) /\ Get(headers, <<"C","o","n","t","e","n","t","-","T","y","p","e">>) # <<>>
  THEN headers
  ELSE Put(headers, <<"C","o","n","t","e","n","t","-","T","y","p","e">>, <<"a","p","p","l","i","c","a","t","i","o","n","/","x","-","w","w","w","-","f","o","r","m","-","u","r","l","e","n","c","o","d","e","d">>)

\* The descriptor { url, method, headers, data }.  data is null or a
\* string: [null |-> TRUE, text |-> <<>>] is null.
parseCurlCommand(curlCommand) ==
  LET urlMatch == UrlMatch(curlCommand)
      methodMatch == MethodMatch(curlCommand)
      headerMatches == HeaderMatches(curlCommand)
      dataMatch == DataMatch(curlCommand)
      headers == WithAuth(ParseHeaders(headerMatches, 1, <<>>), AuthMatch(curlCommand))
      formMatches == FormMatches(curlCommand, 1)
      formData == IF formMatches # <<>> /\ ~dataMatch.found
                  THEN ParseForm(formMatches, 1, <<>>)
                  ELSE <<>>
  IN IF Len(formData) > 0
     THEN [url |-> urlMatch,
           method |-> ResolveMethod(methodMatch, TRUE),
           headers |-> WithFormContentType(headers),
           data |-> [null |-> FALSE, text |-> JsonStringify(formData)]]
     ELSE [url |-> urlMatch,
           method |-> ResolveMethod(methodMatch, dataMatch.found),
           headers |-> headers,
           data |-> [null |-> ~dataMatch.found, text |-> dataMatch.data]]

(***************************************************************************)
(* new URL(url), for the strings urlRegex captures: http:// or https://    *)
(* followed by characters that are neither quotes nor whitespace.          *)
(* Modelled: the slashes skipped before the authority, the empty host      *)
(* that makes the constructor throw, the lowercased host, the default      *)
(* path "/", the query and the fragment.  Not modelled: userinfo, ports,   *)
(* IP addresses, percent-encoding and dot segments, which no modelled      *)
(* input has.                                                              *)
(***************************************************************************)

ParseURL(url) ==
  LET scheme == IF HasAt(url, 1, <<"h","t","t","p","s",":","/","/">>) THEN <<"h","t","t","p","s">> ELSE <<"h","t","t","p">>
      a == RunEnd(url, Len(scheme) + 2, {"/"})
      h == RunEndNot(url, a, {"/", "?", "#"})
      q == RunEndNot(url, h, {"?", "#"})
      f == RunEndNot(url, q, {"#"})
      host == ToLowerCase(SubSeq(url, a, h - 1))
  IN [valid |-> host # <<>>,
      origin |-> scheme \o <<":","/","/">> \o host,
      hostname |-> host,
      pathname |-> IF q = h THEN <<"/">> ELSE SubSeq(url, h, q - 1),
      search |-> IF f - q <= 1 THEN <<>> ELSE SubSeq(url, q, f - 1)]

(***************************************************************************)
(* generateVROCode.  The script is the sequence of the pieces the template *)
(* literals concatenate: Lit is literal text of the template, Sub a        *)
(* substituted string.                                                     *)
(***************************************************************************)

Lit(t) == [lit |-> t, sub |-> <<>>]
Sub(v) == [lit |-> "", sub |-> v]

\* Object.entries(headers).forEach(...), from index i.
RECURSIVE HeaderLines(_, _)
HeaderLines(headers, i) ==
  IF i > Len(headers) THEN <<>>
  ELSE << Lit("request.setHeader(\""), Sub(headers[i].key), Lit("\", \""),
          Sub(headers[i].value), Lit("\");\n") >>
       \o HeaderLines(headers, i + 1)

\* A variant that trims the command before embedding it.
OriginalCommentTrimmed(originalCurlCommand) ==
  << Lit("\n\n/*\nOriginal curl command:\n"), Sub(Trim(originalCurlCommand)), Lit("\n*/") >>

\* The trailing comment with the original curl command.
OriginalComment(originalCurlCommand) ==
  << Lit("\n\n/*\nOriginal curl command:\n"), Sub(originalCurlCommand), Lit("\n*/") >>

\* The script for a descriptor whose url parsed into urlObj.
VROCode(parsedCurl, urlObj, currentDate, originalCurlCommand) ==
  << Lit("/**\n * @description Makes a "), Sub(parsedCurl.method),
     Lit(" REST call to "), Sub(parsedCurl.url),
     Lit("\n * @author curl2vRO\n * @version 1.0.0\n * @date "), Sub(currentDate),
     Lit("\n */\n\n// Accept SSL certificate\nvar ld = Config.getKeystores().getImportCAFromUrlAction();\nvar model = ld.getModel();\nmodel.value = \""),
     Sub(parsedCurl.url),
     Lit("\";\nvar error = ld.execute();\nif (error) {\n    throw new Error(\"Failed to accept certificate for URL: \" + \""),
     Sub(parsedCurl.url),
     Lit("\" + \". Error: \" + error);\n}\n\n// Create transient REST host\nvar restHost = RESTHostManager.createHost(\"dynamicRequest\");\nvar httpRestHost = RESTHostManager.createTransientHostFrom(restHost);\nhttpRestHost.operationTimeout = 600;\nhttpRestHost.url = \""),
     Sub(urlObj.origin),
     Lit("\";\n\n// Create REST request\nvar request = httpRestHost.createRequest(\""),
     Sub(parsedCurl.method), Lit("\", \""), Sub(urlObj.pathname), Sub(urlObj.search),
     Lit("\", ") >>
  \o (IF ~parsedCurl.data.null /\ parsedCurl.data.text # <<>>
      THEN << Lit("JSON.stringify("), Sub(parsedCurl.data.text), Lit("));\n") >>
      ELSE << Lit("null);\n") >>)
  \o (IF Len(parsedCurl.headers) > 0
      THEN << Lit("\n// Add headers\n") >> \o HeaderLines(parsedCurl.headers, 1)
      ELSE <<>>)
  \o << Lit("\n// Execute REST request\nvar response = request.execute();\n\n// Handle response\nif (response.statusCode == 200) {\n    System.log(\"Request successful\");\n    var responseContent = JSON.parse(response.contentAsString);\n    System.log(JSON.stringify(responseContent));\n} else {\n    throw \"Request failed with status: \" + response.statusCode;\n}") >>
  \o OriginalComment(originalCurlCommand)

\* A variant that renders what it can when new URL throws, instead of
\* rethrowing.
generateVROCodeBestEffort(parsedCurl, originalCurlCommand, currentDate) ==
  IF parsedCurl.url = <<>>
  THEN [error |-> "URL is required in the curl command", code |-> <<>>]
  ELSE [error |-> "",
        code |-> VROCode(parsedCurl, ParseURL(parsedCurl.url), currentDate,
                         originalCurlCommand)]

\* generateVROCode: the error it throws, or the script it returns.
generateVROCode(parsedCurl, originalCurlCommand, currentDate) ==
  IF parsedCurl.url = <<>>
  THEN [error |-> "URL is required in the curl command", code |-> <<>>]
  ELSE IF ~ParseURL(parsedCurl.url).valid
  THEN [error |-> "Invalid URL format in curl command", code |-> <<>>]
  ELSE [error |-> "",
        code |-> VROCode(parsedCurl, ParseURL(parsedCurl.url), currentDate,
                         originalCurlCommand)]

(***************************************************************************)
(* convertCurlToVRO                                                        *)
(***************************************************************************)

\* urlObj.pathname.replace(/[\/:\*?"<>|]/g, '_')
SanitizePath(path) ==
  [i \in 1..Len(path) |->
     IF path[i] \in {"/", ":", "*", "?", "\"", "<", ">", "|"} THEN "_" ELSE path[i]]

\* `${urlObj.hostname}${sanitizedPath}_${parsedCurl.method}.js`
Filename(parsedCurl) ==
  ParseURL(parsedCurl.url).hostname
  \o SanitizePath(ParseURL(parsedCurl.url).pathname)
  \o <<"_">> \o parsedCurl.method \o <<".","j","s">>

(***************************************************************************)
(* The curl commands of the model.  A command is one of Heads, the curl    *)
(* keyword with what follows it up to the URL, alone or, for the head      *)
(* marked more, followed by up to MaxOpts of Opts, each after one space,   *)
(* in any order and with repetition.                                       *)
(*   Heads: url is the URL written in the command, verb the argument of    *)
(*          its -X/--request option (<<>> for none).                       *)
(*   Opts:  kind is the option family, arg its argument without the        *)
(*          quotes, quoted whether the argument is written in quotes.      *)
(***************************************************************************)

MaxOpts == 2

Heads ==
  << [text |-> <<"c","u","r","l">>, url |-> <<>>, verb |-> <<>>, more |-> FALSE],
     [text |-> <<"c","u","r","l"," ","-","O"," ","w","w","w",".","h","a","x","x",".","s","e","/","i","n","d","e","x",".","h","t","m","l"," ","-","O"," ","c","u","r","l",".","s","e","/","d","o","w","n","l","o","a","d",".","h","t","m","l">>,
      url |-> <<>>, verb |-> <<>>, more |-> FALSE],
     [text |-> <<"c","u","r","l"," ","h","t","t","p",":","/","/","h",".","i","o","/","p">>, url |-> <<"h","t","t","p",":","/","/","h",".","i","o","/","p">>, verb |-> <<>>, more |-> TRUE],
     [text |-> <<"c","u","r","l"," ","'","h","t","t","p","s",":","/","/","H",".","i","o","/","p","?","q","=","v","'">>, url |-> <<"h","t","t","p","s",":","/","/","H",".","i","o","/","p","?","q","=","v">>, verb |-> <<>>, more |-> FALSE],
     [text |-> <<"c","u","r","l"," ","-","X"," ","d","e","l","e","t","e"," ","h","t","t","p",":","/","/","h",".","i","o","/","p">>, url |-> <<"h","t","t","p",":","/","/","h",".","i","o","/","p">>, verb |-> <<"d","e","l","e","t","e">>,
      more |-> FALSE],
     [text |-> <<"c","u","r","l"," ","-","-","r","e","q","u","e","s","t"," ","P","U","T"," ","\"","h","t","t","p",":","/","/","h",".","i","o","/","p","\"">>, url |-> <<"h","t","t","p",":","/","/","h",".","i","o","/","p">>, verb |-> <<"P","U","T">>, more |-> FALSE],
     [text |-> <<"c","u","r","l"," ","-","-","l","o","c","a","t","i","o","n"," ","-","-","r","e","q","u","e","s","t"," ","P","U","T"," ","'","h","t","t","p","s",":","/","/","h",".","i","o","/","r","/","1","'">>,
      url |-> <<"h","t","t","p","s",":","/","/","h",".","i","o","/","r","/","1">>, verb |-> <<"P","U","T">>, more |-> FALSE],
     [text |-> <<"c","u","r","l"," ","-","-","l","o","c","a","t","i","o","n"," ","-","-","r","e","q","u","e","s","t"," ","P","O","S","T"," "," "," ","h","t","t","p","s",":","/","/","h",".","i","o","/","a","?","v","=","$","v">>,
      url |-> <<"h","t","t","p","s",":","/","/","h",".","i","o","/","a","?","v","=","$","v">>, verb |-> <<"P","O","S","T">>, more |-> FALSE],
     [text |-> <<"c","u","r","l"," ","-","-","l","o","c","a","t","i","o","n"," ","h","t","t","p",":","/","/","h",".","i","o","/","p">>, url |-> <<"h","t","t","p",":","/","/","h",".","i","o","/","p">>, verb |-> <<>>, more |-> FALSE],
     [text |-> <<"c","u","r","l"," ","-","L"," ","h","t","t","p",":","/","/","h",".","i","o","\n">>, url |-> <<"h","t","t","p",":","/","/","h",".","i","o">>, verb |-> <<>>, more |-> FALSE],
     [text |-> <<"c","u","r","l"," ","-","-","u","r","l"," ","h","t","t","p",":","/","/","h",".","i","o","/">>, url |-> <<"h","t","t","p",":","/","/","h",".","i","o","/">>, verb |-> <<>>, more |-> FALSE],
     [text |-> <<"c","u","r","l"," ","h","t","t","p",":","/","/","?","x">>, url |-> <<"h","t","t","p",":","/","/","?","x">>, verb |-> <<>>, more |-> FALSE] >>

Opts ==
  << [text |-> <<"-","H"," ","'","X",":"," ","h","t","t","p",":","/","/","h",":","8","0","/","p","'">>, kind |-> "header", quoted |-> TRUE,
      arg |-> <<"X",":"," ","h","t","t","p",":","/","/","h",":","8","0","/","p">>],
     [text |-> <<"-","H"," ","\"","A"," ",":"," ","b","\"">>, kind |-> "header", quoted |-> TRUE, arg |-> <<"A"," ",":"," ","b">>],
     [text |-> <<"-","-","h","e","a","d","e","r"," ","'","A",":","b","'">>, kind |-> "header", quoted |-> TRUE, arg |-> <<"A",":","b">>],
     [text |-> <<"-","H"," ","'","A",":"," ","c","'">>, kind |-> "header", quoted |-> TRUE, arg |-> <<"A",":"," ","c">>],
     [text |-> <<"-","H"," ","B",":","d">>, kind |-> "header", quoted |-> FALSE, arg |-> <<"B",":","d">>],
     [text |-> <<"-","-","h","e","a","d","e","r"," ","A",":","e">>, kind |-> "header", quoted |-> FALSE, arg |-> <<"A",":","e">>],
     [text |-> <<"-","H"," ","'",":"," ","v","'">>, kind |-> "header", quoted |-> TRUE, arg |-> <<":"," ","v">>],
     [text |-> <<"-","d"," ","'","{","\"","a","\"",":","\"","b","\"","}","'">>, kind |-> "data", quoted |-> TRUE, arg |-> <<"{","\"","a","\"",":","\"","b","\"","}">>],
     [text |-> <<"-","-","d","a","t","a","-","r","a","w"," ","\"","x","=","y","\"">>, kind |-> "data", quoted |-> TRUE, arg |-> <<"x","=","y">>],
     [text |-> <<"-","-","d","a","t","a","-","u","r","l","e","n","c","o","d","e"," ","'","n","=","v","'">>, kind |-> "data", quoted |-> TRUE, arg |-> <<"n","=","v">>],
     [text |-> <<"-","d"," ","x","=","y">>, kind |-> "data", quoted |-> FALSE, arg |-> <<"x","=","y">>],
     [text |-> <<"-","u"," ","a","d",":","s","e">>, kind |-> "auth", quoted |-> FALSE, arg |-> <<"a","d",":","s","e">>],
     [text |-> <<"-","-","u","s","e","r"," ","'","a","d",":","s","e","'">>, kind |-> "auth", quoted |-> TRUE, arg |-> <<"a","d",":","s","e">>],
     [text |-> <<"-","-","f","o","r","m"," ","k","=","v">>, kind |-> "form", quoted |-> FALSE, arg |-> <<"k","=","v">>],
     [text |-> <<"-","-","f","o","r","m"," ","o","=","w">>, kind |-> "form", quoted |-> FALSE, arg |-> <<"o","=","w">>],
     [text |-> <<"-","F"," ","'","k","=","v","'">>, kind |-> "form", quoted |-> TRUE, arg |-> <<"k","=","v">>],
     [text |-> <<"-","F"," ","\"","o","=","w","\"">>, kind |-> "form", quoted |-> TRUE, arg |-> <<"o","=","w">>],
     [text |-> <<"-","X"," ","d","e","l","e","t","e">>, kind |-> "method", quoted |-> FALSE, arg |-> <<"d","e","l","e","t","e">>],
     [text |-> <<"-","-","r","e","q","u","e","s","t"," ","P","a","t","c","h">>, kind |-> "method", quoted |-> FALSE, arg |-> <<"P","a","t","c","h">>] >>

OptSeqs == UNION {[1..n -> 1..Len(Opts)] : n \in 0..MaxOpts}

Commands ==
  {c \in [head : 1..Len(Heads), opts : OptSeqs] : c.opts = <<>> \/ Heads[c.head].more}

RECURSIVE OptsText(_, _)
OptsText(opts, i) ==
  IF i > Len(opts) THEN <<>>
  ELSE <<" ">> \o Opts[opts[i]].text \o OptsText(opts, i + 1)

CommandText(c) == Heads[c.head].text \o OptsText(c.opts, 1)

\* The options argument of a call: absent, or { writeToFile: <bool> }.
OptionValues ==
  { [given |-> FALSE, writeToFile |-> FALSE],
    [given |-> TRUE, writeToFile |-> FALSE],
    [given |-> TRUE, writeToFile |-> TRUE] }

\* The dates new Date().toISOString().split('T')[0] may give.
Dates == { <<"2","0","2","3","-","0","5","-","1","5">>, <<"2","0","2","6","-","1","1","-","0","3">> }

(***************************************************************************)
(* The state: one call of convertCurlToVRO(curlCommand, options).          *)
(***************************************************************************)

VARIABLES
  cmd,          \* how curlCommand is composed (Heads and Opts indexes)
  curlCommand,  \* the argument curlCommand
  options,      \* the second argument of the call
  pc,           \* the position in convertCurlToVRO
  parsedCurl,   \* const parsedCurl
  vroCode,      \* const vroCode
  files,        \* the fs.writeFileSync calls made: <<[name, content]>>
  console,      \* the console.log / console.error lines
  result        \* how the call ended: returned value or thrown error

vars == <<cmd, curlCommand, options, pc, parsedCurl, vroCode, files, console, result>>

NoDescriptor ==
  [url |-> <<>>, method |-> <<>>, headers |-> <<>>, data |-> [null |-> TRUE, text |-> <<>>]]

Init ==
  /\ cmd \in Commands
  /\ curlCommand = CommandText(cmd)
  /\ options \in OptionValues
  /\ pc = "call"
  /\ parsedCurl = NoDescriptor
  /\ vroCode = <<>>
  /\ files = <<>>
  /\ console = <<>>
  /\ result = [status |-> "running", value |-> <<>>, message |-> ""]

\* const parsedCurl = parseCurlCommand(curlCommand);
Parse ==
  /\ pc = "call"
  /\ parsedCurl' = parseCurlCommand(curlCommand)
  /\ pc' = "parsed"
  /\ UNCHANGED <<cmd, curlCommand, options, vroCode, files, console, result>>

\* catch (error) { console.error("Error:", error.message); throw new Error(...) }
Caught(message) ==
  /\ console' = Append(console, [level |-> "error", text |-> message])
  /\ result' = [status |-> "thrown", value |-> <<>>,
                message |-> "Unsupported curl command. Curl2vRO fails to parse it properly. Please check the command."]
  /\ pc' = "done"

\* if (!parsedCurl.url) throw new Error("URL not found in curl command");
Validate ==
  /\ pc = "parsed"
  /\ IF parsedCurl.url = <<>>
     THEN /\ Caught("URL not found in curl command")
          /\ UNCHANGED <<cmd, curlCommand, options, parsedCurl, vroCode, files>>
     ELSE /\ pc' = "valid"
          /\ UNCHANGED <<cmd, curlCommand, options, parsedCurl, vroCode, files, console, result>>

\* const vroCode = generateVROCode(parsedCurl, curlCommand);
Generate ==
  /\ pc = "valid"
  /\ \E currentDate \in Dates :
       LET g == generateVROCode(parsedCurl, curlCommand, currentDate)
       IN IF g.error # ""
          THEN /\ Caught(g.error)
               /\ UNCHANGED <<cmd, curlCommand, options, parsedCurl, vroCode, files>>
          ELSE /\ vroCode' = g.code
               /\ pc' = "generated"
               /\ UNCHANGED <<cmd, curlCommand, options, parsedCurl, files, console, result>>

\* fs.writeFileSync(filename, vroCode); console.log(...): the function has
\* one parameter, curlCommand, and never reads a second argument.
WriteFile ==
  /\ pc = "generated"
  /\ files' = Append(files, [name |-> Filename(parsedCurl), content |-> vroCode])
  /\ console' = Append(console, [level |-> "log", text |-> "vRO code has been saved to",
                                 name |-> Filename(parsedCurl)])
  /\ pc' = "written"
  /\ UNCHANGED <<cmd, curlCommand, options, parsedCurl, vroCode, result>>

\* fs.writeFileSync throws (the file cannot be written): the catch block
\* takes over.
WriteFileFails ==
  /\ pc = "generated"
  /\ Caught("writeFileSync failed")
  /\ UNCHANGED <<cmd, curlCommand, options, parsedCurl, vroCode, files>>

\* return vroCode;
Return ==
  /\ pc = "written"
  /\ result' = [status |-> "returned", value |-> vroCode, message |-> ""]
  /\ pc' = "done"
  /\ UNCHANGED <<cmd, curlCommand, options, parsedCurl, vroCode, files, console>>

Next == Parse \/ Validate \/ Generate \/ WriteFile \/ WriteFileFails \/ Return

Spec == Init /\ [][Next]_vars

(***************************************************************************)
(* What a command of the model contains, read off its composition.         *)
(***************************************************************************)

\* The positions of cmd.opts that hold an option of the given kind.
OptsOfKind(kind) == {i \in 1..Len(cmd.opts) : Opts[cmd.opts[i]].kind = kind}

OptAt(i) == Opts[cmd.opts[i]]

\* The argument of the first -X/--request option of the command, <<>> when
\* it has none.
ExplicitVerb ==
  IF Heads[cmd.head].verb # <<>> THEN Heads[cmd.head].verb
  ELSE IF OptsOfKind("method") # {} THEN OptAt(Min(OptsOfKind("method"))).arg
  ELSE <<>>

\* The string contains http:// or https://.
HasScheme(s) ==
  \E p \in 1..Len(s) : HasAt(s, p, <<"h","t","t","p",":","/","/">>) \/ HasAt(s, p, <<"h","t","t","p","s",":","/","/">>)

\* The text before and after the first colon of a header string.
FirstColon(c) == Min({i \in 1..Len(c) : c[i] = ":"})
BeforeFirstColon(c) == SubSeq(c, 1, FirstColon(c) - 1)
AfterFirstColon(c) == SubSeq(c, FirstColon(c) + 1, Len(c))

\* A string without its trailing, and without its leading, whitespace.
DropTrailingSpace(x) ==
  LET keep == {i \in 1..Len(x) : x[i] \notin Space}
  IN IF keep = {} THEN <<>>
     ELSE SubSeq(x, 1, CHOOSE i \in keep : \A j \in keep : j <= i)

DropLeadingSpace(x) ==
  LET keep == {i \in 1..Len(x) : x[i] \notin Space}
  IN IF keep = {} THEN <<>> ELSE SubSeq(x, Min(keep), Len(x))

\* Two header strings differ only in whitespace around the first colon.
SameButColonSpace(c, d) ==
  /\ DropTrailingSpace(BeforeFirstColon(c)) = DropTrailingSpace(BeforeFirstColon(d))
  /\ DropLeadingSpace(AfterFirstColon(c)) = DropLeadingSpace(AfterFirstColon(d))

(***************************************************************************)
(* C1                                                                      *)
(***************************************************************************)

\* C1 as stated: for an input with neither http:// nor https://,
\* parseCurlCommand fails instead of returning a descriptor, so the call
\* never holds a descriptor of such an input.
C1_ParseFailsWithoutScheme ==
  pc = "parsed" => HasScheme(curlCommand)

\* C1 as amended: for an input with neither http:// nor https://,
\* parseCurlCommand returns a descriptor whose url is the empty string,
\* and convertCurlToVRO then raises "URL not found in curl command"
\* (logged, and thrown on as the unsupported-command error): it renders
\* nothing, writes no file and returns no script.
C1_NoSchemeGivesEmptyUrlThenThrows ==
  ~HasScheme(curlCommand) =>
    /\ pc # "call" => parsedCurl.url = <<>>
    /\ pc \in {"call", "parsed", "done"}
    /\ vroCode = <<>> /\ files = <<>>
    /\ pc = "done" =>
         /\ result.status = "thrown"
         /\ console = <<[level |-> "error", text |-> "URL not found in curl command"]>>

C1_Witness ==
  /\ ~HasScheme(curlCommand)
  /\ cmd.head = 2
  /\ pc = "done"
  /\ result.status = "thrown"

(***************************************************************************)
(* C2                                                                      *)
(***************************************************************************)

\* C2: an input with a body flag followed by a value, quoted or not, and
\* with no -X/--request option, parses to the method POST.
C2_BodyFlagMeansPost ==
  (pc = "parsed" /\ OptsOfKind("data") # {} /\ ExplicitVerb = <<>>)
    => parsedCurl.method = <<"P","O","S","T">>

(***************************************************************************)
(* C3                                                                      *)
(***************************************************************************)

\* C3: when the input has -X <verb> or --request <verb>, the method of the
\* descriptor is that verb (of the first such option) in uppercase,
\* whether or not a body flag or a form option is present.
C3_ExplicitMethodWins ==
  (pc = "parsed" /\ ExplicitVerb # <<>>)
    => /\ parsedCurl.method = ToUpperCase(ExplicitVerb)
       /\ \A i \in 1..Len(parsedCurl.method) : parsedCurl.method[i] \in UpperLetter

C3_Witness ==
  /\ pc = "parsed"
  /\ ExplicitVerb = <<"d","e","l","e","t","e">>
  /\ \E i \in OptsOfKind("data") : OptAt(i).quoted
  /\ ~parsedCurl.data.null
  /\ parsedCurl.method = <<"D","E","L","E","T","E">>

(***************************************************************************)
(* C4                                                                      *)
(***************************************************************************)

\* C4: an input with -u/--user followed by username:password, quoted or
\* not, parses to headers that hold Authorization = "Basic " followed by
\* the base64 encoding of the whole username:password.
C4_UserGivesBasicAuth ==
  (pc = "parsed" /\ OptsOfKind("auth") # {})
    => /\ HasKey(parsedCurl.headers, <<"A","u","t","h","o","r","i","z","a","t","i","o","n">>)
       /\ \E i \in OptsOfKind("auth") :
            Get(parsedCurl.headers, <<"A","u","t","h","o","r","i","z","a","t","i","o","n">>) = <<"B","a","s","i","c"," ">> \o Base64(OptAt(i).arg)

(***************************************************************************)
(* C5                                                                      *)
(***************************************************************************)

\* The mapping of all key=value pairs of the form options of the command.
RECURSIVE FormPairs(_)
FormPairs(i) ==
  IF i = 0 THEN <<>>
  ELSE IF OptAt(i).kind = "form"
  THEN Put(FormPairs(i - 1), Split(OptAt(i).arg, "=")[1], Split(OptAt(i).arg, "=")[2])
  ELSE FormPairs(i - 1)

\* C5: an input with --form/-F key=value options and no body flag parses
\* to a body that is the JSON text of the mapping of all the pairs, to the
\* Content-Type application/x-www-form-urlencoded when no Content-Type
\* header is given, and to the method POST when no method is given.
C5_FormGivesJsonBody ==
  (pc = "parsed" /\ OptsOfKind("form") # {} /\ OptsOfKind("data") = {})
    => /\ ~parsedCurl.data.null
       /\ parsedCurl.data.text = JsonStringify(FormPairs(Len(cmd.opts)))
       /\ HasKey(parsedCurl.headers, <<"C","o","n","t","e","n","t","-","T","y","p","e">>)
       /\ Get(parsedCurl.headers, <<"C","o","n","t","e","n","t","-","T","y","p","e">>) = <<"a","p","p","l","i","c","a","t","i","o","n","/","x","-","w","w","w","-","f","o","r","m","-","u","r","l","e","n","c","o","d","e","d">>
       /\ ExplicitVerb = <<>> => parsedCurl.method = <<"P","O","S","T">>

(***************************************************************************)
(* C6                                                                      *)
(***************************************************************************)

\* The command is curl --location --request <VERB> <URL>.
LocationRequestForm == HasAt(curlCommand, 1, <<"c","u","r","l"," ","-","-","l","o","c","a","t","i","o","n"," ","-","-","r","e","q","u","e","s","t"," ">>)

\* C6: for a command of the form curl --location --request <VERB> <URL>
\* the URL is extracted, the conversion ends without error, and the
\* generated request uses that verb and the path and query of the URL.
C6_LocationRequestConverts ==
  LocationRequestForm =>
    /\ pc # "call" => parsedCurl.url = Heads[cmd.head].url
    /\ pc = "done" =>
         /\ result.status = "returned"
         /\ \E i \in 1..(Len(result.value) - 4) :
              /\ result.value[i] = Lit("\";\n\n// Create REST request\nvar request = httpRestHost.createRequest(\"")
              /\ result.value[i + 1] = Sub(Heads[cmd.head].verb)
              /\ result.value[i + 3].sub \o result.value[i + 4].sub
                   = ParseURL(Heads[cmd.head].url).pathname
                     \o ParseURL(Heads[cmd.head].url).search

(***************************************************************************)
(* C7                                                                      *)
(***************************************************************************)

\* The script ends with the comment block that holds the text verbatim.
EndsWithOriginal(code, text) ==
  /\ Len(code) >= 3
  /\ code[Len(code) - 2] = Lit("\n\n/*\nOriginal curl command:\n")
  /\ code[Len(code) - 1] = Sub(text)
  /\ code[Len(code)] = Lit("\n*/")

\* C7: the text generateVROCode returns ends with the comment block that
\* holds the original input, character for character.
C7_OriginalCommandVerbatim ==
  /\ pc \in {"generated", "written", "done"} /\ result.status # "thrown"
       => EndsWithOriginal(vroCode, curlCommand)
  /\ result.status = "returned" => EndsWithOriginal(result.value, curlCommand)

C7_Witness ==
  /\ result.status = "returned"
  /\ curlCommand[Len(curlCommand)] = "\n"
  /\ result.value[Len(result.value) - 1].sub = curlCommand

(***************************************************************************)
(* C8                                                                      *)
(***************************************************************************)

\* The header strings the parser collected that contain a colon.
CollectedHeaders ==
  LET ms == HeaderMatches(curlCommand)
  IN [i \in {j \in 1..Len(ms) : Includes(HeaderContent(ms[j]), ":")} |-> HeaderContent(ms[i])]

\* C8: each collected header string is split at its first colon only: the
\* key is the trimmed text before it, the value the trimmed whole text
\* after it; the entry of a key is that of the last collected string with
\* that key (for the keys no later step assigns), and two strings that
\* differ only in whitespace around the colon give the same key and value.
C8_HeaderSplitAtFirstColon ==
  pc = "parsed" =>
    LET hs == CollectedHeaders
        key(i) == Trim(BeforeFirstColon(hs[i]))
        value(i) == Trim(AfterFirstColon(hs[i]))
    IN /\ \A i \in DOMAIN hs :
            /\ HasKey(parsedCurl.headers, key(i))
            /\ ( /\ key(i) \notin {<<"A","u","t","h","o","r","i","z","a","t","i","o","n">>, <<"C","o","n","t","e","n","t","-","T","y","p","e">>}
                 /\ \A j \in DOMAIN hs : j > i => key(j) # key(i) )
                 => Get(parsedCurl.headers, key(i)) = value(i)
       /\ \A i, j \in DOMAIN hs :
            SameButColonSpace(hs[i], hs[j]) => key(i) = key(j) /\ value(i) = value(j)

C8_Witness ==
  /\ pc = "parsed"
  /\ cmd.opts = <<2, 1>>
  /\ HasKey(parsedCurl.headers, <<"X">>)
  /\ Get(parsedCurl.headers, <<"X">>) = <<"h","t","t","p",":","/","/","h",":","8","0","/","p">>
  /\ Get(parsedCurl.headers, <<"A">>) = <<"b">>

(***************************************************************************)
(* C9                                                                      *)
(***************************************************************************)

\* C9: called with { writeToFile: false }, the conversion writes no file.
C9_NoWriteWhenNotAsked ==
  (options.given /\ ~options.writeToFile) => files = <<>>

(***************************************************************************)
(* C10                                                                     *)
(***************************************************************************)

\* C10: every -H/--header option whose argument contains a colon gives an
\* entry of the headers, quoted or not, also when quoted and unquoted
\* arguments are mixed; the last option with a key decides its value.
C10_EveryHeaderOptionCollected ==
  pc = "parsed" =>
    \A i \in OptsOfKind("header") :
      LET k == Trim(BeforeFirstColon(OptAt(i).arg))
      IN /\ HasKey(parsedCurl.headers, k)
         /\ (\A j \in OptsOfKind("header") :
               j > i => Trim(BeforeFirstColon(OptAt(j).arg)) # k)
              => Get(parsedCurl.headers, k) = Trim(AfterFirstColon(OptAt(i).arg))

(***************************************************************************)
(* C11                                                                     *)
(***************************************************************************)

\* C11: the headers of a descriptor parseCurlCommand returns hold no
\* empty-string key, also when a header argument starts with a colon or
\* has only whitespace before it.
C11_NoEmptyHeaderKey ==
  pc = "parsed" => ~HasKey(parsedCurl.headers, <<>>)

(***************************************************************************)
(* C12                                                                     *)
(***************************************************************************)

\* The url of the descriptor is missing or does not parse as an absolute
\* URI.
UrlUnusable == parsedCurl.url = <<>> \/ ~ParseURL(parsedCurl.url).valid

\* C12: when the URL is missing or does not parse as an absolute URI,
\* generateVROCode throws with no output built, and convertCurlToVRO
\* throws, returns no script text and has written no file; a file is
\* written only after parsing and rendering have both succeeded, and it
\* holds the rendered script.
C12_FailFast ==
  /\ (pc # "call" /\ UrlUnusable) =>
       /\ \A d \in Dates :
            /\ generateVROCode(parsedCurl, curlCommand, d).error # ""
            /\ generateVROCode(parsedCurl, curlCommand, d).code = <<>>
       /\ pc \in {"parsed", "valid", "done"}
       /\ vroCode = <<>> /\ files = <<>>
       /\ result.status # "returned" /\ result.value = <<>>
       /\ pc = "done" => result.status = "thrown"
  /\ files # <<>> =>
       /\ pc \in {"written", "done"}
       /\ ~UrlUnusable
       /\ vroCode # <<>>
       /\ files = <<[name |-> Filename(parsedCurl), content |-> vroCode]>>
  /\ result.status = "thrown" => result.value = <<>> /\ files = <<>>

C12_Witness ==
  /\ pc = "done"
  /\ parsedCurl.url = <<"h","t","t","p",":","/","/","?","x">>
  /\ result.status = "thrown"
  /\ console = <<[level |-> "error", text |-> "Invalid URL format in curl command"]>>
  /\ files = <<>>

=============================================================================
